---- MODULE Spec2Model ----
(***************************************************************************)
(* Feature-engineering pipeline of march-madness-prediction                *)
(* (src/src/data_preparation): the temporal ranking join, the rolling      *)
(* statistics, the outcome symmetrizer and the bracket structure resolver. *)
(* Tables (pandas DataFrames) are sequences of records; a missing value    *)
(* (NaN) is the sentinel NaN, which no data column ever holds.             *)
(***************************************************************************)
EXTENDS Integers, Sequences, FiniteSets, TLC

\* ---------------------------------------------------------------- bounds
\* Rows of the game table handed to merge_with_latest_ranking.
MaxGames == 2
\* Rows of the ranking table handed to merge_with_latest_ranking.
MaxRankings == 2
\* Rows of the game log handed to calculate_rolling_stats.
MaxLog == 3
\* The window size n_games of the modelled calls (the code's default is 5).
Window == 2
\* Rows of the table handed to RandomizeTeamsTransformer.transform.
MaxRows == 2
\* transform calls made on RandomizeTeamsTransformer objects in one behaviour.
MaxTransforms == 2
\* Rows of the combined game table handed to TournamentSlotTransformer.transform.
MaxSlotGames == 2
\* Rows of each result file handed to combine_season_results.
MaxFileRows == 2
\* Rows of the ranking table handed to process_rankings.
MaxOrdinals == 2

\* ---------------------------------------------------------------- domains
Seasons == {1, 2}
Teams == {1, 2}
GameDays == {1, 2}
RankingDays == {1, 2, 3}
OrdinalRanks == {1, 2}
LogDays == {1, 2, 3}
StatValues == {1, 2, 3}
TeamIdCols == {"WTeamID", "LTeamID"}

\* A missing value: pandas NaN.  Every data column holds values >= 0.
NaN == 0 - 1

VARIABLES
    game_data,      \* merge_with_latest_ranking: the game table (argument)
    rank_data,      \* merge_with_latest_ranking: the ranking table (argument)
    team_id_col,    \* merge_with_latest_ranking: the join column (argument)
    merged,         \* merge_with_latest_ranking: the table returned
    rank_pc,        \* "input" while the caller builds the tables, "done" after the call
    games_df,       \* the game log the next calculate_rolling_stats call will read
    rolled_from,    \* calculate_rolling_stats: games_df of the latest call
    rolling_stats,  \* calculate_rolling_stats: the table the latest call returned
    X,              \* the table handed to RandomizeTeamsTransformer.transform
    random_state,   \* RandomizeTeamsTransformer.random_state
    rng,            \* RandomizeTeamsTransformer.rng: <<seed, numbers drawn>>
    runs,           \* the transform calls made: the seed configured, the numbers the
                    \* generator had drawn before, and the table returned
    slot_X,         \* TournamentSlotTransformer.transform: the mapping of tables X
    slot_out,       \* TournamentSlotTransformer.transform: the table returned
    slot_pc,        \* "input" while the caller fills X, "done" after the call
    data_files,     \* combine_season_results: the dict passed in (file stem -> table)
    frames,         \* the DataFrame objects load_data created, by file stem
    comb_out,       \* combine_season_results: the dict returned
    comb_pc,        \* "input" while the caller fills the dict, "done" after the call
    rankings_df,    \* process_rankings: the table of ranking records (argument)
    ranking_system, \* process_rankings: the selector (argument)
    processed,      \* process_rankings: the exception raised or the table returned
    proc_pc,        \* "input" while the caller prepares the call, "done" after it
    pipe_files,     \* the files of the raw data directory (file stem -> table)
    pipe_X,         \* the value handed from one stage of a pipeline run to the next
    pipe_params,    \* feature_pipeline: ranking_system of 'rankings', n_games of 'rolling_stats'
    pipe_log,       \* the stages a run has called, in call order
    pipe_err,       \* the exception a stage raised, NoError while none has
    pipe_pc,        \* 0 before load_raw_dataset, then the number of the next step
    raw_dir,        \* data/raw: the files of each gender (prefix -> file stem -> table)
    cache_store,    \* data/preprocessed: file name -> the table saved and what for
    cache_request,  \* load_processed_dataset: the arguments of the latest call
    cache_result    \* load_processed_dataset: what the latest call raised or returned

rankVars == <<game_data, rank_data, team_id_col, merged, rank_pc>>
rollVars == <<games_df, rolled_from, rolling_stats>>
symVars == <<X, random_state, rng, runs>>
slotVars == <<slot_X, slot_out, slot_pc>>
combVars == <<data_files, frames, comb_out, comb_pc>>
procVars == <<rankings_df, ranking_system, processed, proc_pc>>
pipeVars == <<pipe_files, pipe_X, pipe_params, pipe_log, pipe_err, pipe_pc>>
cacheVars == <<raw_dir, cache_store, cache_request, cache_result>>
loadVars == <<combVars, procVars, pipeVars, cacheVars>>
vars == <<rankVars, rollVars, symVars, slotVars, loadVars>>

\* ---------------------------------------------------------------- helpers
\* The rows of table s at the positions in I, in table order (boolean-mask
\* selection df[mask] / df.loc[mask]).
RECURSIVE RowsAt(_, _, _)
RowsAt(s, I, i) ==
    IF i > Len(s) THEN <<>>
    ELSE (IF i \in I THEN <<s[i]>> ELSE <<>>) \o RowsAt(s, I, i + 1)

\* ------------------------------------------------- merge_with_latest_ranking
GameRows ==
    [Season : Seasons, DayNum : GameDays, WTeamID : Teams, LTeamID : Teams]

RankingRows ==
    [Season : Seasons, TeamID : Teams, RankingDayNum : RankingDays,
     OrdinalRank : OrdinalRanks]

\* The right-hand columns of a left-join row that found no match.
NoRanking == [TeamID |-> NaN, RankingDayNum |-> NaN, OrdinalRank |-> NaN]

\* pd.merge(game_data, rank_data, left_on=['Season', col],
\*          right_on=['Season', 'TeamID'], how='left'): every game row once per
\* matching ranking row, in game order then ranking order; a game row without
\* a match once, with the ranking columns missing.
RECURSIVE LeftMerge(_, _, _)
LeftMerge(gs, rs, col) ==
    IF gs = <<>> THEN <<>>
    ELSE LET g == Head(gs)
             ms == SelectSeq(rs, LAMBDA r : r.Season = g.Season /\ r.TeamID = g[col])
         IN  (IF ms = <<>> THEN <<g @@ NoRanking>>
              ELSE [i \in 1..Len(ms) |-> g @@ ms[i]])
             \o LeftMerge(Tail(gs), rs, col)

\* merged['DayNum'] >= merged['RankingDayNum']: a comparison with NaN is False.
RankedAnyDay(row) == row.RankingDayNum # NaN
RankedBeforeGame(row) ==
    row.RankingDayNum # NaN /\ row.DayNum >= row.RankingDayNum

\* sort_values('RankingDayNum'): ascending.
ByRankingDayNum(a, b) == a.RankingDayNum < b.RankingDayNum

\* The group key of groupby(['Season', 'DayNum', col]).
GroupKey(row, col) == <<row.Season, row.DayNum, row[col]>>

\* Groups come out in ascending key order (groupby sorts its keys).
KeyLess(a, b) ==
    \/ a[1] < b[1]
    \/ a[1] = b[1] /\ a[2] < b[2]
    \/ a[1] = b[1] /\ a[2] = b[2] /\ a[3] < b[3]

\* groupby(key).last(): of each group the last row in table order (every
\* column of a row that passed the filter is present, so the last non-null
\* value of each column is that of the group's last row).
PicksFirst(s, col) ==
    {i \in 1..Len(s) : \A j \in 1..(i - 1) : GroupKey(s[j], col) # GroupKey(s[i], col)}
PicksLast(s, col) ==
    {i \in 1..Len(s) : \A j \in (i + 1)..Len(s) : GroupKey(s[j], col) # GroupKey(s[i], col)}

merge_with_latest_ranking(gs, rs, col) ==
    LET joined == LeftMerge(gs, rs, col)
        kept == SelectSeq(joined, RankedBeforeGame)
        sorted == SortSeq(kept, ByRankingDayNum)
        lasts == RowsAt(sorted, PicksLast(sorted, col), 1)
    IN  SortSeq(lasts, LAMBDA a, b : KeyLess(GroupKey(a, col), GroupKey(b, col)))

\* The tables a caller can pass: the game log is chronological (ascending
\* Season, DayNum), a team plays at most one game a day and never itself;
\* process_rankings returns one record per (season, team, ranking day), in any
\* row order.
PlaysOn(g, s, d, t) == g.Season = s /\ g.DayNum = d /\ (g.WTeamID = t \/ g.LTeamID = t)

NotBefore(g, h) ==
    g.Season > h.Season \/ (g.Season = h.Season /\ g.DayNum >= h.DayNum)

\* Game g has two different teams, neither of which plays another game of gs
\* on that day.
OncePerDay(gs, g) ==
    /\ g.WTeamID # g.LTeamID
    /\ \A i \in 1..Len(gs) :
          ~ (PlaysOn(gs[i], g.Season, g.DayNum, g.WTeamID)
             \/ PlaysOn(gs[i], g.Season, g.DayNum, g.LTeamID))

CanAddGame(gs, g) ==
    /\ OncePerDay(gs, g)
    /\ gs # <<>> => NotBefore(g, gs[Len(gs)])

CanAddRanking(rs, r) ==
    \A i \in 1..Len(rs) :
        ~ (rs[i].Season = r.Season /\ rs[i].TeamID = r.TeamID
           /\ rs[i].RankingDayNum = r.RankingDayNum)

RankIdle ==
    /\ game_data = <<>>
    /\ rank_data = <<>>
    /\ team_id_col = "WTeamID"
    /\ merged = <<>>
    /\ rank_pc = "input"

RollIdle ==
    /\ games_df = <<>>
    /\ rolled_from = <<>>
    /\ rolling_stats = <<>>

\* random_state=None: no seed.
None == 0 - 2

\* The seeds of the modelled generators.
SeedValues == {0, 42}

SymIdle ==
    /\ X = <<>>
    /\ random_state = None
    /\ rng = <<0, 0>>
    /\ runs = <<>>

SlotIdle ==
    /\ slot_X = [NCAATourneySeeds |-> <<>>, CombinedDetailedResults |-> <<>>,
                 NCAATourneySlots |-> <<>>]
    /\ slot_out = <<>>
    /\ slot_pc = "input"

\* A dict without keys.
EmptyMapping == [k \in {} |-> <<>>]

CombIdle ==
    /\ data_files = EmptyMapping
    /\ frames = EmptyMapping
    /\ comb_out = EmptyMapping
    /\ comb_pc = "input"

\* A selector is a str, a list of str or None: its type and its names.
NoSelector == [kind |-> "None", names |-> <<>>]

\* No exception.
NoError == "none"

ProcIdle ==
    /\ rankings_df = <<>>
    /\ ranking_system = NoSelector
    /\ processed = [raised |-> NoError, table |-> <<>>]
    /\ proc_pc = "input"

\* RollingStatsTransformer(n_games=5).
DefaultNGames == 5

\* The value a stage is handed: a dict of named tables, or a DataFrame, of
\* which the pipeline model keeps the column names.
Dict(D) == [kind |-> "dict", files |-> D, columns |-> {}]
Frame(cols) == [kind |-> "DataFrame", files |-> EmptyMapping, columns |-> cols]

\* The parameters feature_pipeline is built with.
PipeIdle ==
    /\ pipe_files = EmptyMapping
    /\ pipe_X = Dict(EmptyMapping)
    /\ pipe_params = [ranking_system |-> [kind |-> "str", names |-> <<"SEL">>],
                      n_games |-> DefaultNGames]
    /\ pipe_log = <<>>
    /\ pipe_err = NoError
    /\ pipe_pc = 0

\* No call of load_processed_dataset yet.
NoRequest ==
    [men |-> TRUE, year |-> 0, ranking_system |-> NoSelector, n_games |-> 0,
     force_reprocess |-> FALSE]
\* A processed table, with the arguments of the call that computed it.
NoTable == [saved_for |-> <<TRUE, 0, NoSelector, 0>>, table |-> Frame({})]
NoResult == [raised |-> NoError, source |-> "none", returned |-> NoTable]

CacheIdle ==
    /\ raw_dir = [M |-> EmptyMapping, W |-> EmptyMapping]
    /\ cache_store = EmptyMapping
    /\ cache_request = NoRequest
    /\ cache_result = NoResult

LoadIdle == CombIdle /\ ProcIdle /\ PipeIdle /\ CacheIdle

RankInit == RankIdle /\ RollIdle /\ SymIdle /\ SlotIdle /\ LoadIdle

\* The caller appends a game row to the game table.
AddGameRow ==
    /\ rank_pc = "input"
    /\ Len(game_data) < MaxGames
    /\ \E g \in GameRows :
          /\ CanAddGame(game_data, g)
          /\ game_data' = Append(game_data, g)
    /\ UNCHANGED <<rank_data, team_id_col, merged, rank_pc, rollVars, symVars, slotVars, loadVars>>

\* The caller appends a ranking record to the ranking table.
AddRankingRow ==
    /\ rank_pc = "input"
    /\ Len(rank_data) < MaxRankings
    /\ \E r \in RankingRows :
          /\ CanAddRanking(rank_data, r)
          /\ rank_data' = Append(rank_data, r)
    /\ UNCHANGED <<game_data, team_id_col, merged, rank_pc, rollVars, symVars, slotVars, loadVars>>

\* One call merge_with_latest_ranking(game_data, rank_data, col).
MergeCall ==
    /\ rank_pc = "input"
    /\ \E col \in TeamIdCols :
          /\ team_id_col' = col
          /\ merged' = merge_with_latest_ranking(game_data, rank_data, col)
    /\ rank_pc' = "done"
    /\ UNCHANGED <<game_data, rank_data, rollVars, symVars, slotVars, loadVars>>

RankNext == AddGameRow \/ AddRankingRow \/ MergeCall

SpecRank == RankInit /\ [][RankNext]_vars

\* --------------------------------------------------- calculate_rolling_stats
\* A row of the game log; Score stands for each of the thirteen box-score
\* columns of score_cols, which the loop of lines 105-107 treats alike.
LogRows ==
    [Season : Seasons, DayNum : LogDays, WTeamID : Teams, LTeamID : Teams,
     WScore : StatValues, LScore : StatValues]

\* winners / losers: one side's columns of every game, renamed to the
\* unprefixed names.
winners(gs) ==
    [i \in 1..Len(gs) |->
        [Score |-> gs[i].WScore, Season |-> gs[i].Season,
         DayNum |-> gs[i].DayNum, TeamID |-> gs[i].WTeamID]]

losers(gs) ==
    [i \in 1..Len(gs) |->
        [Score |-> gs[i].LScore, Season |-> gs[i].Season,
         DayNum |-> gs[i].DayNum, TeamID |-> gs[i].LTeamID]]

\* The order of sort_values(['Season', 'DayNum']): ascending.
SeasonDayAfter(a, b) ==
    a.Season > b.Season \/ (a.Season = b.Season /\ a.DayNum > b.DayNum)
SeasonDayBefore(a, b) ==
    a.Season < b.Season \/ (a.Season = b.Season /\ a.DayNum < b.DayNum)

\* x put into the sorted table s before the first row that sorts after it.
RECURSIVE InsertSorted(_, _)
InsertSorted(s, x) ==
    IF s = <<>> THEN <<x>>
    ELSE IF SeasonDayBefore(x, Head(s)) THEN <<x>> \o s
    ELSE <<Head(s)>> \o InsertSorted(Tail(s), x)

\* sort_values(['Season', 'DayNum']): a multi-column sort is a stable lexsort.
RECURSIVE SortBySeasonDay(_)
SortBySeasonDay(s) ==
    IF s = <<>> THEN <<>>
    ELSE InsertSorted(SortBySeasonDay(SubSeq(s, 1, Len(s) - 1)), s[Len(s)])

\* all_games['TeamID'].unique(): the team ids in order of first appearance.
RECURSIVE UniqueTeams(_, _)
UniqueTeams(s, seen) ==
    IF s = <<>> THEN <<>>
    ELSE IF Head(s).TeamID \in seen THEN UniqueTeams(Tail(s), seen)
    ELSE <<Head(s).TeamID>> \o UniqueTeams(Tail(s), seen \cup {Head(s).TeamID})

\* The rows of a rolling window that ends at row p: the n rows up to p, fewer
\* at the start of the table (min_periods=1).
ExpandingWindow(p, n, len) == 1..p
RollingWindow(p, n, len) == {i \in 1..len : p - n < i /\ i <= p}

RECURSIVE SumScore(_, _)
SumScore(s, I) ==
    IF I = {} THEN 0
    ELSE LET i == CHOOSE j \in I : TRUE
         IN  s[i].Score + SumScore(s, I \ {i})

\* team_games[col].rolling(window=n, min_periods=1).mean(), kept with the
\* identifiers only.  The mean is the exact fraction <<sum, count>>.
RollTeam(team_games, n) ==
    [p \in 1..Len(team_games) |->
        LET w == RollingWindow(p, n, Len(team_games))
        IN  [RollScore |-> <<SumScore(team_games, w), Cardinality(w)>>,
             Season |-> team_games[p].Season,
             DayNum |-> team_games[p].DayNum,
             TeamID |-> team_games[p].TeamID]]

RECURSIVE RollTeams(_, _, _)
RollTeams(all_games, teams, n) ==
    IF teams = <<>> THEN <<>>
    ELSE RollTeam(SelectSeq(all_games, LAMBDA r : r.TeamID = Head(teams)), n)
         \o RollTeams(all_games, Tail(teams), n)

calculate_rolling_stats(gs, n) ==
    LET all_games == SortBySeasonDay(winners(gs) \o losers(gs))
    IN  RollTeams(all_games, UniqueTeams(all_games, {}), n)

\* The caller's log: chronological; no team plays twice a day or itself, and
\* the winner scored more than the loser.
CanPlay(gs, g) == OncePerDay(gs, g) /\ g.WScore > g.LScore

RollInit == RankIdle /\ RollIdle /\ SymIdle /\ SlotIdle /\ LoadIdle

\* A game is added to the log at its chronological place.
AddGame ==
    /\ Len(games_df) < MaxLog
    /\ \E g \in LogRows :
          /\ CanPlay(games_df, g)
          /\ games_df' = SelectSeq(games_df, LAMBDA h : ~ NotBefore(h, g))
                          \o <<g>> \o SelectSeq(games_df, LAMBDA h : NotBefore(h, g))
    /\ UNCHANGED <<rolled_from, rolling_stats, rankVars, symVars, slotVars, loadVars>>

\* One call calculate_rolling_stats(games_df, n_games).
CalculateRollingStats ==
    /\ rolled_from # games_df
    /\ rolling_stats' = calculate_rolling_stats(games_df, Window)
    /\ rolled_from' = games_df
    /\ UNCHANGED <<games_df, rankVars, symVars, slotVars, loadVars>>

RollNext == AddGame \/ CalculateRollingStats

SpecRoll == RollInit /\ [][RollNext]_vars

\* ------------------------------------------------- RandomizeTeamsTransformer
\* A column name is <<first character, rest>>, so that col.startswith('W') and
\* col[1:] are what the code computes.
Season_ == <<"S", "eason">>
WTeamID_ == <<"W", "TeamID">>
LTeamID_ == <<"L", "TeamID">>
WScore_ == <<"W", "Score">>
LScore_ == <<"L", "Score">>
TeamA_wins_ == <<"T", "eamA_wins">>

\* The rows of the table handed to transform, the games of one season: a row
\* keeps its index label.
SymRows ==
    {[index |-> 0, cols |-> (Season_ :> sn @@ WTeamID_ :> w @@ LTeamID_ :> l
                             @@ WScore_ :> ws @@ LScore_ :> ls)] :
        sn \in {1}, w \in Teams, l \in Teams, ws \in StatValues, ls \in StatValues}

\* np.random.RandomState(seed).rand(): the first numbers of the stream of each
\* seed (0 and 42), in hundredths, rounded down.
Stream(seed) ==
    IF seed = 0
    THEN <<54, 71, 60, 54, 42, 64, 43, 89, 96, 38, 79, 52, 56, 92, 7, 8, 2, 83, 77, 87>>
    ELSE <<37, 95, 73, 59, 15, 15, 5, 86, 60, 70, 2, 96, 83, 21, 18, 18, 30, 52, 43, 29>>

\* self.rng.rand(n) > 0.5 with the generator in state g.
RandOverHalf(g, n) == [i \in 1..n |-> Stream(g[1])[g[2] + i] > 50]

\* The state of np.random.RandomState(random_state): the seed's stream from
\* its start; without a seed, the stream of a seed drawn from the system's
\* entropy.
RandomState(seed) ==
    IF seed = None THEN {<<e, 0>> : e \in SeedValues} ELSE {<<seed, 0>>}

\* DataFrame.rename(columns=names) of one row; names maps each column of the
\* row to its new name.
RenameCols(row, names) ==
    [index |-> row.index,
     cols |-> [d \in {names[c] : c \in DOMAIN names} |->
                  row.cols[CHOOSE c \in DOMAIN names : names[c] = d]]]

\* new_columns: W... becomes A_..., L... becomes B_... (lines 118-124).
NewColumn(c) ==
    IF c[1] = "W" THEN <<"A", "_" \o c[2]>>
    ELSE IF c[1] = "L" THEN <<"B", "_" \o c[2]>>
    ELSE c

\* rename_dict: A... becomes B..., B... becomes A... (lines 135-141).
KeepsName(c) == c
SwapName(c) ==
    IF c[1] = "A" THEN <<"B", c[2]>>
    ELSE IF c[1] = "B" THEN <<"A", c[2]>>
    ELSE c

\* The rows whose columns are swapped: X_random['TeamA_wins'] == False.
TeamAWinsRow(row) == row.cols[TeamA_wins_]
TeamBWinsRow(row) == ~ row.cols[TeamA_wins_]

\* X_random_team_b_wins after rename(columns=rename_dict).
BothOrderings(t) ==
    LET b_wins == SelectSeq(t, TeamBWinsRow)
    IN  b_wins \o [i \in 1..Len(b_wins) |->
            RenameCols(b_wins[i], [c \in DOMAIN b_wins[i].cols |-> SwapName(c)])]
SwappedRows(t) ==
    LET b_wins == SelectSeq(t, TeamBWinsRow)
    IN  [i \in 1..Len(b_wins) |->
            RenameCols(b_wins[i], [c \in DOMAIN b_wins[i].cols |-> SwapName(c)])]

\* RandomizeTeamsTransformer.transform(X) with the generator in state g.
\* Both parts of the concat have the same columns, so no NaN is filled in.
Randomize(t, g) ==
    LET draws == RandOverHalf(g, Len(t))
        X_random == [i \in 1..Len(t) |->
                        LET r == RenameCols(t[i], [c \in DOMAIN t[i].cols |-> NewColumn(c)])
                        IN  [index |-> r.index,
                             cols |-> (TeamA_wins_ :> draws[i]) @@ r.cols]]
    IN  SelectSeq(X_random, TeamAWinsRow) \o SwappedRows(X_random)

\* The pipeline's object: RandomizeTeamsTransformer(), unseeded, no row yet.
SymInit ==
    /\ RankIdle /\ RollIdle /\ SlotIdle /\ LoadIdle
    /\ X = <<>>
    /\ random_state = None
    /\ rng \in RandomState(None)
    /\ runs = <<>>

\* The caller appends a game row to the table; a winner outscores the loser.
AddRow ==
    /\ runs = <<>>
    /\ Len(X) < MaxRows
    /\ \E r \in SymRows :
          /\ r.cols[WTeamID_] # r.cols[LTeamID_]
          /\ r.cols[WScore_] > r.cols[LScore_]
          /\ X' = Append(X, [r EXCEPT !.index = Len(X)])
    /\ UNCHANGED <<random_state, rng, runs, rankVars, rollVars, slotVars, loadVars>>

\* RandomizeTeamsTransformer(random_state=seed): a new object.
Construct ==
    /\ Len(runs) < MaxTransforms
    /\ \E seed \in SeedValues \cup {None} :
          /\ random_state' = seed
          /\ rng' \in RandomState(seed)
    /\ UNCHANGED <<X, runs, rankVars, rollVars, slotVars, loadVars>>

\* One call transform(X) on the current object.
Transform ==
    /\ Len(runs) < MaxTransforms
    /\ runs' = Append(runs, [random_state |-> random_state, drawn |-> rng[2],
                              out |-> Randomize(X, rng)])
    /\ rng' = <<rng[1], rng[2] + Len(X)>>
    /\ UNCHANGED <<X, random_state, rankVars, rollVars, slotVars, loadVars>>

\* set_params(random_state=seed) on the current object (through the pipeline:
\* set_params(randomize_teams__random_state=seed)): BaseEstimator.set_params
\* sets the attribute; rng is made in __init__ only and stays as it is.
SetParams ==
    /\ Len(runs) < MaxTransforms
    /\ \E seed \in (SeedValues \cup {None}) \ {random_state} :
          random_state' = seed
    /\ UNCHANGED <<X, rng, runs, rankVars, rollVars, slotVars, loadVars>>

SymNext == AddRow \/ Construct \/ SetParams \/ Transform

SpecSym == SymInit /\ [][SymNext]_vars

\* ------------------------------------------------- TournamentSlotTransformer
\* Text values (seed strings, region codes) are sequences of characters, so
\* that str[0], str[1:] and str.contains are what the code computes.
SlotTeams == {1, 2, 3}
SlotDays == {1, 2}

SlotRows ==
    [Season : Seasons, DayNum : SlotDays, WTeamID : SlotTeams, LTeamID : SlotTeams,
     NCAA_Tournament : BOOLEAN]

\* The seed strings of the modelled teams: two play-in seeds of region W and a
\* seed of region X.
SeedOf(t) ==
    CASE t = 1 -> <<"W", "1", "6", "a">>
      [] t = 2 -> <<"W", "1", "6", "b">>
      [] OTHER -> <<"X", "0", "1">>

\* The seed file: one record per season and team, seasons in order.
SeedFile ==
    [i \in 1..(Cardinality(Seasons) * Cardinality(SlotTeams)) |->
        LET sn == ((i - 1) \div Cardinality(SlotTeams)) + 1
            t == ((i - 1) % Cardinality(SlotTeams)) + 1
        IN  [Season |-> sn, TeamID |-> t, Seed |-> SeedOf(t)]]

\* A missing value in a text column.
NaNText == <<>>

\* astype(str): NaN becomes the string 'nan'.
AsStr(v) == IF v = NaNText THEN <<"n", "a", "n">> ELSE v

\* str.contains('a|b').
ContainsAB(str) == \E i \in 1..Len(str) : str[i] \in {"a", "b"}

FinalFour == <<"F", "i", "n", "a", "l", " ", "F", "o", "u", "r">>

\* The Seed a left join on (Season, team) attaches to game g: the seed of
\* every matching record, NaN when there is none.
SeedsJoined(g, seeds, col) ==
    LET ms == SelectSeq(seeds, LAMBDA r : r.Season = g.Season /\ r.TeamID = g[col])
    IN  IF ms = <<>> THEN <<NaNText>> ELSE [i \in 1..Len(ms) |-> ms[i].Seed]

\* pd.merge(games_df, seeds_df, left_on=['Season', col], right_on=['Season',
\* 'TeamID'], how='left').rename(columns={'Seed': name}).drop(columns=['TeamID']).
RECURSIVE MergeSeeds(_, _, _, _)
MergeSeeds(gs, seeds, col, name) ==
    IF gs = <<>> THEN <<>>
    ELSE LET g == Head(gs)
             sd == SeedsJoined(g, seeds, col)
         IN  [i \in 1..Len(sd) |-> (name :> sd[i]) @@ g]
             \o MergeSeeds(Tail(gs), seeds, col, name)

\* The order of two-column sort keys.
KeyBefore(a, b) == a[1] < b[1] \/ (a[1] = b[1] /\ a[2] < b[2])

\* A stable ascending sort of table s by the sort keys key[1..Len(s)].
StableSort(s, key) ==
    LET pos(i) == 1 + Cardinality({j \in 1..Len(s) :
                        KeyBefore(key[j], key[i])
                        \/ (~ KeyBefore(key[i], key[j]) /\ j < i)})
    IN  [p \in 1..Len(s) |-> s[CHOOSE i \in 1..Len(s) : pos(i) = p]]

\* sort_values(by=['WTeamID', 'DayNum']).
SortByWinnerDay(s) == StableSort(s, [i \in 1..Len(s) |-> <<s[i].WTeamID, s[i].DayNum>>])

\* sort_values(by='DayNum').
SortByDayNum(s) == StableSort(s, [i \in 1..Len(s) |-> <<s[i].DayNum, 0>>])

\* groupby(by=['WTeamID']).cumcount() + 1 at row p of table s.
CumCount(s, p) == Cardinality({q \in 1..(p - 1) : s[q].WTeamID = s[p].WTeamID})
RoundFromZero(s, p) == CumCount(s, p)
RoundNumber(s, p) == CumCount(s, p) + 1

\* Lines 188-193: the region code and the rest of each seed string.
SplitSeeds(row) ==
    [row EXCEPT !.WSeed = Tail(AsStr(row.WSeed)), !.LSeed = Tail(AsStr(row.LSeed))]
    @@ [WConference |-> <<Head(AsStr(row.WSeed))>>,
        LConference |-> <<Head(AsStr(row.LSeed))>>]

\* first_four_index.
IsFirstFour(row) == ContainsAB(row.WSeed) /\ ContainsAB(row.LSeed)

\* Lines 209-216: Conference from the two region codes, which are dropped.
WithConference(row) ==
    [Season |-> row.Season, DayNum |-> row.DayNum, WTeamID |-> row.WTeamID,
     LTeamID |-> row.LTeamID, NCAA_Tournament |-> row.NCAA_Tournament,
     WSeed |-> row.WSeed, LSeed |-> row.LSeed, Round |-> row.Round,
     Conference |-> IF row.WConference = row.LConference
                    THEN row.WConference ELSE FinalFour]

\* Lines 218-219: a regular-season row with the bracket columns set to NaN.
WithRoundZero(row) ==
    row @@ [WSeed |-> NaNText, LSeed |-> NaNText, Round |-> 0, Conference |-> NaNText]
WithoutBracket(row) ==
    row @@ [WSeed |-> NaNText, LSeed |-> NaNText, Round |-> NaN, Conference |-> NaNText]

\* TournamentSlotTransformer.transform(X).
TournamentSlots(D) ==
    LET seeds_df == D.NCAATourneySeeds
        games == D.CombinedDetailedResults
        slots_df == D.NCAATourneySlots
        tourney == SelectSeq(games, LAMBDA g : g.NCAA_Tournament)
        seeded == MergeSeeds(MergeSeeds(tourney, seeds_df, "WTeamID", "WSeed"),
                             seeds_df, "LTeamID", "LSeed")
        split == [i \in 1..Len(seeded) |-> SplitSeeds(seeded[i])]
        ff == SelectSeq(split, IsFirstFour)
        first_four == [i \in 1..Len(ff) |-> ff[i] @@ [Round |-> 0]]
        sorted == SortByWinnerDay(SelectSeq(split, LAMBDA r : ~ IsFirstFour(r)))
        main_tourney == [p \in 1..Len(sorted) |->
                            sorted[p] @@ [Round |-> RoundNumber(sorted, p)]]
        by_day == SortByDayNum(first_four \o main_tourney)
        regular == SelectSeq(games, LAMBDA g : ~ g.NCAA_Tournament)
    IN  [i \in 1..Len(regular) |-> WithoutBracket(regular[i])]
        \o [i \in 1..Len(by_day) |-> WithConference(by_day[i])]

SlotInit == RankIdle /\ RollIdle /\ SymIdle /\ SlotIdle /\ LoadIdle

\* The caller appends a game to the combined table, in any row order; no team
\* plays twice a day or itself.
AddSlotGame ==
    /\ slot_pc = "input"
    /\ Len(slot_X.CombinedDetailedResults) < MaxSlotGames
    /\ \E g \in SlotRows :
          /\ OncePerDay(slot_X.CombinedDetailedResults, g)
          /\ slot_X' = [slot_X EXCEPT !.CombinedDetailedResults = Append(@, g)]
    /\ UNCHANGED <<slot_out, slot_pc, rankVars, rollVars, symVars, loadVars>>

\* The caller reads the next record of the seed file into the seed table.
AddSeed ==
    /\ slot_pc = "input"
    /\ Len(slot_X.NCAATourneySeeds) < Len(SeedFile)
    /\ slot_X' = [slot_X EXCEPT !.NCAATourneySeeds =
                                  Append(@, SeedFile[Len(@) + 1])]
    /\ UNCHANGED <<slot_out, slot_pc, rankVars, rollVars, symVars, loadVars>>

\* One call TournamentSlotTransformer().transform(X).
SlotTransform ==
    /\ slot_pc = "input"
    /\ slot_out' = TournamentSlots(slot_X)
    /\ slot_pc' = "done"
    /\ UNCHANGED <<slot_X, rankVars, rollVars, symVars, loadVars>>

SlotNext == AddSlotGame \/ AddSeed \/ SlotTransform

SpecSlot == SlotInit /\ [][SlotNext]_vars

\* --------------------------------------------------- combine_season_results
\* The variables of the feature transformers.
coreVars == <<rankVars, rollVars, symVars, slotVars>>

\* The result files of the raw data directory, by file stem without the M or W
\* of the gender, and the seed file next to them.
ResultFiles ==
    {"RegularSeasonDetailedResults", "NCAATourneyDetailedResults",
     "RegularSeasonCompactResults", "NCAATourneyCompactResults"}
OtherFiles == {"NCAATourneySeeds"}

\* The rows of a result file.
FileRows == [Season : Seasons, DayNum : SlotDays, WTeamID : {1}, LTeamID : {2}]

\* The prefixes combine_season_results asks for that key k starts with.
KeyPrefixes(k) ==
    CASE k = "RegularSeasonDetailedResults" -> {"RegularSeasonDetailed"}
      [] k = "NCAATourneyDetailedResults" -> {"NCAATourneyDetailed"}
      [] k = "RegularSeasonCompactResults" -> {"RegularSeasonCompact"}
      [] k = "NCAATourneyCompactResults" -> {"NCAATourneyCompact"}
      [] OTHER -> {}

\* k.startswith(p).
startswith(k, p) == p \in KeyPrefixes(k)

\* The None of next(..., None).
NoKey == "None"

\* next((k for k in data_files.keys() if k.startswith(p)), None): a directory
\* holds at most one file of each prefix.
FirstKey(D, p) ==
    IF \E k \in DOMAIN D : startswith(k, p)
    THEN CHOOSE k \in DOMAIN D : startswith(k, p)
    ELSE NoKey

\* df['NCAA_Tournament'] = flag: the column is set on every row of the table.
TagFalse(t, flag) == [i \in 1..Len(t) |-> [NCAA_Tournament |-> FALSE] @@ t[i]]
Tag(t, flag) == [i \in 1..Len(t) |-> [NCAA_Tournament |-> flag] @@ t[i]]

\* Lines 172-180 (and 183-191): when both keys were found, the two tables are
\* flagged and concatenated under name, and their keys deleted.
CombineOrTag(D, r, t, name) ==
    IF r # NoKey /\ t # NoKey
    THEN [k \in (DOMAIN D \ {r, t}) \cup {name} |->
             IF k = name THEN Tag(D[r], FALSE) \o Tag(D[t], TRUE) ELSE D[k]]
    ELSE [k \in DOMAIN D |->
             IF k = r THEN Tag(D[k], FALSE)
             ELSE IF k = t THEN Tag(D[k], TRUE) ELSE D[k]]
CombineShape(D, r, t, name) ==
    IF r # NoKey /\ t # NoKey
    THEN [k \in (DOMAIN D \ {r, t}) \cup {name} |->
             IF k = name THEN Tag(D[r], FALSE) \o Tag(D[t], TRUE) ELSE D[k]]
    ELSE D

\* The dict after combine_season_results(D), which is also the dict returned.
combine_season_results(D) ==
    LET rd == FirstKey(D, "RegularSeasonDetailed")
        rc == FirstKey(D, "RegularSeasonCompact")
        td == FirstKey(D, "NCAATourneyDetailed")
        tc == FirstKey(D, "NCAATourneyCompact")
    IN  CombineShape(CombineShape(D, rd, td, "CombinedDetailedResults"),
                     rc, tc, "CombinedCompactResults")

\* The DataFrame objects F of the dict D after the call: the flag column is set
\* on the objects themselves (lines 174, 176, 185, 187).
TaggedFrames(F, D) ==
    LET rd == FirstKey(D, "RegularSeasonDetailed")
        rc == FirstKey(D, "RegularSeasonCompact")
        td == FirstKey(D, "NCAATourneyDetailed")
        tc == FirstKey(D, "NCAATourneyCompact")
    IN  [k \in DOMAIN F |->
            IF rd # NoKey /\ td # NoKey /\ k \in {rd, td} THEN Tag(F[k], k = td)
            ELSE IF rc # NoKey /\ tc # NoKey /\ k \in {rc, tc} THEN Tag(F[k], k = tc)
            ELSE F[k]]

\* The number of rows of all tables of the dict.
RECURSIVE TotalRows(_, _)
TotalRows(D, K) ==
    IF K = {} THEN 0
    ELSE LET k == CHOOSE x \in K : TRUE
         IN  Len(D[k]) + TotalRows(D, K \ {k})

CombInit == RankIdle /\ RollIdle /\ SymIdle /\ SlotIdle /\ LoadIdle

\* load_data reads a file: a key and a table without rows yet.
AddFile ==
    /\ comb_pc = "input"
    /\ \E k \in (ResultFiles \cup OtherFiles) \ DOMAIN data_files :
          /\ data_files' = (k :> <<>>) @@ data_files
          /\ frames' = (k :> <<>>) @@ frames
    /\ UNCHANGED <<comb_out, comb_pc, coreVars, procVars, pipeVars, cacheVars>>

\* A row of a result file; a file holds a game once.
AddFileRow ==
    /\ comb_pc = "input"
    /\ TotalRows(data_files, DOMAIN data_files) < MaxFileRows
    /\ \E k \in DOMAIN data_files \cap ResultFiles : \E row \in FileRows :
          /\ \A i \in 1..Len(data_files[k]) : data_files[k][i] # row
          /\ data_files' = [data_files EXCEPT ![k] = Append(@, row)]
          /\ frames' = [frames EXCEPT ![k] = Append(@, row)]
    /\ UNCHANGED <<comb_out, comb_pc, coreVars, procVars, pipeVars, cacheVars>>

\* One call combine_season_results(data_files).
CombineSeasonResults ==
    /\ comb_pc = "input"
    /\ data_files' = combine_season_results(data_files)
    /\ frames' = TaggedFrames(frames, data_files)
    /\ comb_out' = combine_season_results(data_files)
    /\ comb_pc' = "done"
    /\ UNCHANGED <<coreVars, procVars, pipeVars, cacheVars>>

CombNext == AddFile \/ AddFileRow \/ CombineSeasonResults

SpecComb == CombInit /\ [][CombNext]_vars

\* ----------------------------------------------------------- process_rankings
SystemNames == {"SEL", "POM"}

\* The records of MasseyOrdinals.
OrdinalRows ==
    [Season : {1}, TeamID : Teams, RankingDayNum : {1}, SystemName : SystemNames,
     OrdinalRank : OrdinalRanks]

\* The selectors a caller can pass: None, a system name or the empty string, a
\* list of system names.
Selectors ==
    {NoSelector}
    \cup {[kind |-> "str", names |-> <<n>>] : n \in SystemNames \cup {""}}
    \cup {[kind |-> "list", names |-> l] :
            l \in {<<>>} \cup {<<a>> : a \in SystemNames}
                  \cup {<<a, b>> : a \in SystemNames, b \in SystemNames}}

\* `if ranking_system:` - None, '' and [] are false.
Truthy(sel) ==
    /\ sel.kind # "None"
    /\ sel.kind = "str" => sel.names[1] # ""
    /\ sel.kind = "list" => sel.names # <<>>

\* The group key of groupby(['Season', 'TeamID', 'RankingDayNum']).
RankKey(r) == <<r.Season, r.TeamID, r.RankingDayNum>>

\* The group keys in ascending order.
RECURSIVE SortedKeys(_)
SortedKeys(K) ==
    IF K = {} THEN <<>>
    ELSE LET m == CHOOSE k \in K : \A o \in K \ {k} : KeyLess(k, o)
         IN  <<m>> \o SortedKeys(K \ {m})

\* Series.median(): the middle value, the average of the two middle values for
\* an even count; the exact fraction <<numerator, denominator>>.
Median(ranks) ==
    LET v == SortSeq(ranks, LAMBDA a, b : a < b)
        n == Len(v)
    IN  IF n % 2 = 1 THEN <<v[(n + 1) \div 2], 1>>
        ELSE <<v[n \div 2] + v[(n \div 2) + 1], 2>>

\* groupby(['Season', 'TeamID', 'RankingDayNum'])['OrdinalRank'].median()
\* .reset_index(), with SystemName set to 'MEDIAN'.
MedianRanks(t) ==
    LET keys == SortedKeys({RankKey(t[i]) : i \in 1..Len(t)})
    IN  [g \in 1..Len(keys) |->
            LET rows == SelectSeq(t, LAMBDA r : RankKey(r) = keys[g])
            IN  [Season |-> keys[g][1], TeamID |-> keys[g][2],
                 RankingDayNum |-> keys[g][3],
                 OrdinalRank |-> Median([i \in 1..Len(rows) |-> rows[i].OrdinalRank]),
                 SystemName |-> "MEDIAN"]]

\* Lines 52-53: the check for an empty result.
IsEmpty(t) == t = <<>>

\* process_rankings(rankings_df, ranking_system): the exception raised, or the
\* table returned.
process_rankings(df, sel) ==
    IF Truthy(sel)
    THEN IF sel.kind = "str"
         THEN LET processed_rankings ==
                      SelectSeq(df, LAMBDA r : r.SystemName = sel.names[1])
              IN  IF IsEmpty(processed_rankings)
                  THEN [raised |-> "ValueError", table |-> <<>>]
                  ELSE [raised |-> NoError, table |-> processed_rankings]
         ELSE LET filtered_rankings ==
                      SelectSeq(df, LAMBDA r :
                          \E i \in 1..Len(sel.names) : r.SystemName = sel.names[i])
              IN  [raised |-> NoError, table |-> MedianRanks(filtered_rankings)]
    ELSE [raised |-> NoError, table |-> MedianRanks(df)]

ProcInit == RankIdle /\ RollIdle /\ SymIdle /\ SlotIdle /\ LoadIdle

\* A record of the ranking table; a system ranks a team once a day.
AddOrdinal ==
    /\ proc_pc = "input"
    /\ Len(rankings_df) < MaxOrdinals
    /\ \E r \in OrdinalRows :
          /\ \A i \in 1..Len(rankings_df) :
                ~ (RankKey(rankings_df[i]) = RankKey(r)
                   /\ rankings_df[i].SystemName = r.SystemName)
          /\ rankings_df' = Append(rankings_df, r)
    /\ UNCHANGED <<ranking_system, processed, proc_pc, coreVars, combVars, pipeVars, cacheVars>>

\* The caller chooses the selector of the call.
ChooseSelector ==
    /\ proc_pc = "input"
    /\ ranking_system = NoSelector
    /\ \E sel \in Selectors \ {NoSelector} : ranking_system' = sel
    /\ UNCHANGED <<rankings_df, processed, proc_pc, coreVars, combVars, pipeVars, cacheVars>>

\* One call process_rankings(rankings_df, ranking_system).
ProcessRankings ==
    /\ proc_pc = "input"
    /\ processed' = process_rankings(rankings_df, ranking_system)
    /\ proc_pc' = "done"
    /\ UNCHANGED <<rankings_df, ranking_system, coreVars, combVars, pipeVars, cacheVars>>

ProcNext == AddOrdinal \/ ChooseSelector \/ ProcessRankings

SpecProc == ProcInit /\ [][ProcNext]_vars

\* ------------------------------------------------------------ feature_pipeline
\* The steps of feature_pipeline, in list order (pipelines.py:14-19).
Steps == <<"tournament_slots", "rankings", "rolling_stats", "randomize_teams">>

\* The files of the raw data directory a run reads.
PipelineFiles ==
    {"RegularSeasonDetailedResults", "NCAATourneyDetailedResults",
     "NCAATourneySeeds", "NCAATourneySlots", "MasseyOrdinals"}

\* The tables a file of the directory can hold.
FileContents(k) ==
    CASE k \in ResultFiles -> {<<>>} \cup {<<row>> : row \in FileRows}
      [] k = "NCAATourneySeeds" -> {<<>>, SeedFile}
      [] k = "MasseyOrdinals" -> {<<>>} \cup {<<r>> : r \in OrdinalRows}
      [] OTHER -> {<<>>}

\* filter_by_year: every table of the modelled files has a Season column.
filter_by_year(D, year) ==
    [k \in DOMAIN D |-> SelectSeq(D[k], LAMBDA r : r.Season = year)]

\* More column names, as <<first character, rest>>.
DayNum_ == <<"D", "ayNum">>
NCAA_Tournament_ == <<"N", "CAA_Tournament">>
WSeed_ == <<"W", "Seed">>
LSeed_ == <<"L", "Seed">>
Round_ == <<"R", "ound">>
Conference_ == <<"C", "onference">>
WRollScore_ == <<"W", "RollScore">>
LRollScore_ == <<"L", "RollScore">>
TeamID_x_ == <<"T", "eamID_x">>
TeamID_y_ == <<"T", "eamID_y">>

\* The columns of CombinedDetailedResults; Score stands for the box score.
GameColumns ==
    {Season_, DayNum_, WTeamID_, LTeamID_, WScore_, LScore_, NCAA_Tournament_}

\* What a stage does with its input: the exception it raises, or the value it
\* returns.
Raises(e, xv) == [raised |-> e, value |-> xv]
Returns(xv) == [raised |-> NoError, value |-> xv]

\* TournamentSlotTransformer.transform(X): X[self.SEEDS], X[self.GAMES] and
\* X[self.SLOTS] are read first; a DataFrame has no such columns.
SlotStage(xv) ==
    IF xv.kind = "DataFrame" THEN Raises("KeyError", xv)
    ELSE IF ~ ({"NCAATourneySeeds", "CombinedDetailedResults", "NCAATourneySlots"}
                  \subseteq DOMAIN xv.files)
    THEN Raises("KeyError", xv)
    ELSE Returns(Frame(GameColumns \cup {WSeed_, LSeed_, Round_, Conference_}))

\* RankingTransformer.transform(X): X['MasseyOrdinals'] and X[self.GAMES] are
\* read, process_rankings is called, and merge_with_latest_ranking, which has
\* three parameters, is called with four arguments.
RankStage(xv, sel) ==
    IF xv.kind = "DataFrame" THEN Raises("KeyError", xv)
    ELSE IF ~ ({"MasseyOrdinals", "CombinedDetailedResults"} \subseteq DOMAIN xv.files)
    THEN Raises("KeyError", xv)
    ELSE IF process_rankings(xv.files["MasseyOrdinals"], sel).raised # NoError
    THEN Raises(process_rankings(xv.files["MasseyOrdinals"], sel).raised, xv)
    ELSE Raises("TypeError", xv)

\* RollingStatsTransformer.transform(X): calculate_rolling_stats selects the
\* box-score columns by a list, which a dict cannot take as a key; the rolled
\* columns of both teams are merged onto the games.
RollStage(xv, n) ==
    IF xv.kind = "dict" THEN Raises("TypeError", xv)
    ELSE IF ~ ({Season_, DayNum_, WTeamID_, LTeamID_, WScore_, LScore_}
                  \subseteq xv.columns)
    THEN Raises("KeyError", xv)
    ELSE Returns(Frame(xv.columns \cup {WRollScore_, LRollScore_, TeamID_x_, TeamID_y_}))

\* RandomizeTeamsTransformer.transform(X): X.columns is read; the W and L
\* columns become A and B columns and TeamA_wins is added.
RandomizeStage(xv) ==
    IF xv.kind = "dict" THEN Raises("AttributeError", xv)
    ELSE Returns(Frame({SwapName(NewColumn(c)) : c \in xv.columns}
                       \cup {NewColumn(c) : c \in xv.columns} \cup {TeamA_wins_}))

\* The transform of the step called name.
StepTransform(name, xv, params) ==
    CASE name = "tournament_slots" -> SlotStage(xv)
      [] name = "rankings" -> RankStage(xv, params.ranking_system)
      [] name = "rolling_stats" -> RollStage(xv, params.n_games)
      [] OTHER -> RandomizeStage(xv)

PipeInit == RankIdle /\ RollIdle /\ SymIdle /\ SlotIdle /\ LoadIdle

\* A file of the raw data directory.
PutFile ==
    /\ pipe_pc = 0
    /\ \E k \in PipelineFiles \ DOMAIN pipe_files : \E t \in FileContents(k) :
          pipe_files' = (k :> t) @@ pipe_files
    /\ UNCHANGED <<pipe_X, pipe_params, pipe_log, pipe_err, pipe_pc, coreVars,
                   combVars, procVars, cacheVars>>

\* load_raw_dataset(men, year): the files are loaded, the result files
\* combined, and every table filtered to the year.
LoadRawDataset ==
    /\ pipe_pc = 0
    /\ \E year \in Seasons :
          pipe_X' = Dict(filter_by_year(combine_season_results(pipe_files), year))
    /\ pipe_log' = <<"combine_season_results">>
    /\ pipe_pc' = 1
    /\ UNCHANGED <<pipe_files, pipe_params, pipe_err, coreVars, combVars, procVars, cacheVars>>

\* feature_pipeline.set_params(rankings__ranking_system=..., rolling_stats__
\* n_games=...) before the transform (dataloader.py:116-119).
SetPipelineParams ==
    /\ pipe_pc = 1
    /\ pipe_log = <<"combine_season_results">>
    /\ \E sel \in Selectors, n \in {Window, DefaultNGames} :
          /\ pipe_params # [ranking_system |-> sel, n_games |-> n]
          /\ pipe_params' = [ranking_system |-> sel, n_games |-> n]
    /\ UNCHANGED <<pipe_files, pipe_X, pipe_log, pipe_err, pipe_pc, coreVars,
                   combVars, procVars, cacheVars>>

\* feature_pipeline.transform: the next step's transform is called on what the
\* step before returned; an exception ends the run.
PipelineStep ==
    /\ pipe_pc \in 1..Len(Steps)
    /\ pipe_err = NoError
    /\ LET res == StepTransform(Steps[pipe_pc], pipe_X, pipe_params)
       IN  /\ pipe_log' = Append(pipe_log, Steps[pipe_pc])
           /\ pipe_err' = res.raised
           /\ pipe_X' = res.value
           /\ pipe_pc' = IF res.raised = NoError THEN pipe_pc + 1 ELSE pipe_pc
    /\ UNCHANGED <<pipe_files, pipe_params, coreVars, combVars, procVars, cacheVars>>

PipeNext == PutFile \/ LoadRawDataset \/ SetPipelineParams \/ PipelineStep

SpecPipe == PipeInit /\ [][PipeNext]_vars

\* ------------------------------------------------------ load_processed_dataset
\* The arguments of a call.
Requests ==
    [men : BOOLEAN, year : Seasons, ranking_system : Selectors,
     n_games : {Window, DefaultNGames}, force_reprocess : BOOLEAN]

\* f'{ranking_system}': a str as it is, None as 'None', a list in brackets
\* with its names quoted.
FormatSelector(sel) ==
    IF sel.kind = "str" THEN <<sel.names[1]>>
    ELSE IF sel.kind = "None" THEN <<"None">>
    ELSE <<"[">> \o [i \in 1..Len(sel.names) |-> "'" \o sel.names[i] \o "'"] \o <<"]">>

\* name_processed_dataset: the parts of the file name.
name_processed_dataset(men, year, sel, n) ==
    <<IF men THEN "M" ELSE "W", "ProcessedTourneyData", year, FormatSelector(sel),
      n, ".csv">>

\* A raw directory of one gender with every file a run reads, the rankings
\* being of system sys.
FullDir(sys) ==
    [k \in PipelineFiles |->
        CASE k = "RegularSeasonDetailedResults" ->
                <<[Season |-> 1, DayNum |-> 1, WTeamID |-> 1, LTeamID |-> 2]>>
          [] k = "NCAATourneyDetailedResults" ->
                <<[Season |-> 1, DayNum |-> 2, WTeamID |-> 1, LTeamID |-> 2]>>
          [] k = "NCAATourneySeeds" -> SeedFile
          [] k = "MasseyOrdinals" ->
                <<[Season |-> 1, TeamID |-> 1, RankingDayNum |-> 1,
                   SystemName |-> sys, OrdinalRank |-> 1]>>
          [] OTHER -> <<>>]

RawDirs == {EmptyMapping} \cup {FullDir(sys) : sys \in SystemNames}

\* The arguments a processed table is computed for.
SavedFor(req) == <<req.men, req.year, req.ranking_system, req.n_games>>

\* data/preprocessed at the start: empty, or with a file an earlier session
\* saved for the default arguments.
EarlierStores ==
    {EmptyMapping,
     (name_processed_dataset(TRUE, 1, [kind |-> "str", names |-> <<"SEL">>], DefaultNGames)
        :> [saved_for |-> <<TRUE, 1, [kind |-> "str", names |-> <<"SEL">>], DefaultNGames>>,
            table |-> Frame(GameColumns)])}

\* feature_pipeline.transform(data_files): the steps in list order, each on
\* what the step before returned, up to the first exception.
RECURSIVE RunSteps(_, _, _)
RunSteps(i, xv, params) ==
    IF i > Len(Steps) THEN Returns(xv)
    ELSE LET res == StepTransform(Steps[i], xv, params)
         IN  IF res.raised # NoError THEN res
             ELSE RunSteps(i + 1, res.value, params)

CacheInit ==
    /\ RankIdle /\ RollIdle /\ SymIdle /\ SlotIdle /\ CombIdle /\ ProcIdle /\ PipeIdle
    /\ raw_dir \in [{"M", "W"} -> RawDirs]
    /\ cache_store \in EarlierStores
    /\ cache_request = NoRequest
    /\ cache_result = NoResult

\* One call load_processed_dataset(men, year, ranking_system, n_games,
\* force_reprocess): the stored file is read when it exists and the call does
\* not force; otherwise the raw data is loaded, the pipeline configured and run,
\* and its result saved and returned; an exception of the run ends the call.
LoadProcessedDataset ==
    \E req \in Requests :
        LET file_name == name_processed_dataset(req.men, req.year, req.ranking_system,
                                                req.n_games)
            raw_data == Dict(filter_by_year(
                            combine_season_results(raw_dir[IF req.men THEN "M" ELSE "W"]),
                            req.year))
            params == [ranking_system |-> req.ranking_system, n_games |-> req.n_games]
            res == RunSteps(1, raw_data, params)
            processed_data == [saved_for |-> SavedFor(req), table |-> res.value]
        IN  /\ cache_request' = req
            /\ IF ~ req.force_reprocess /\ file_name \in DOMAIN cache_store
               THEN /\ cache_result' = [raised |-> NoError, source |-> "file",
                                        returned |-> cache_store[file_name]]
                    /\ UNCHANGED <<cache_store, pipe_params>>
               ELSE /\ pipe_params' = params
                    /\ IF res.raised # NoError
                       THEN /\ cache_result' = [raised |-> res.raised,
                                                source |-> "pipeline",
                                                returned |-> NoTable]
                            /\ UNCHANGED cache_store
                       ELSE /\ cache_store' =
                                  [f \in DOMAIN cache_store \cup {file_name} |->
                                      IF f = file_name THEN processed_data
                                      ELSE cache_store[f]]
                            /\ cache_result' = [raised |-> NoError,
                                                source |-> "pipeline",
                                                returned |-> processed_data]
            /\ UNCHANGED <<raw_dir, pipe_files, pipe_X, pipe_log, pipe_err, pipe_pc,
                           coreVars, combVars, procVars>>

CacheNext == LoadProcessedDataset

SpecCache == CacheInit /\ [][CacheNext]_vars

\* ------------------------------------------------ claims on the ranking join
\* The ranking records of rank_data that game g's team in the joined column may
\* take: same season, same team, ranked on or before the game's day.
Qualifying(g) ==
    {j \in 1..Len(rank_data) :
        /\ rank_data[j].Season = g.Season
        /\ rank_data[j].TeamID = g[team_id_col]
        /\ rank_data[j].RankingDayNum <= g.DayNum}

\* The rows returned for game g.
RowsOf(g) ==
    {i \in 1..Len(merged) : GroupKey(merged[i], team_id_col) = GroupKey(g, team_id_col)}

\* C1: every row returned by merge_with_latest_ranking that carries a ranking
\* carries one of its own team whose RankingDayNum is <= the row's DayNum; a
\* ranking dated after the game is never attached.
C1_NoLookahead ==
    rank_pc = "done" =>
        \A i \in 1..Len(merged) :
            merged[i].RankingDayNum # NaN =>
                /\ merged[i].RankingDayNum <= merged[i].DayNum
                /\ merged[i].TeamID = merged[i][team_id_col]

\* C1 witness: a game was returned with a ranking although the table also held
\* a ranking of that team and season dated after the game.
C1_Witness ==
    /\ rank_pc = "done"
    /\ \E i \in 1..Len(merged) : \E j \in 1..Len(rank_data) :
          /\ merged[i].RankingDayNum # NaN
          /\ rank_data[j].Season = merged[i].Season
          /\ rank_data[j].TeamID = merged[i][team_id_col]
          /\ rank_data[j].RankingDayNum > merged[i].DayNum

\* C2: every game whose joined team has a ranking of the same season on or
\* before the game's day is returned exactly once, with the record of that
\* season and team that has the greatest RankingDayNum not after the game.
C2_MostRecentRanking ==
    rank_pc = "done" =>
        \A k \in 1..Len(game_data) :
            LET g == game_data[k]
                Q == Qualifying(g)
            IN  Q # {} =>
                  /\ Cardinality(RowsOf(g)) = 1
                  /\ \E j \in Q :
                        /\ \A q \in Q : rank_data[q].RankingDayNum <= rank_data[j].RankingDayNum
                        /\ \A i \in RowsOf(g) : merged[i] = g @@ rank_data[j]

\* C2 witness: a game was joined whose team had an older and a newer qualifying
\* ranking.
C2_Witness ==
    /\ rank_pc = "done"
    /\ \E k \in 1..Len(game_data) :
          /\ Cardinality(Qualifying(game_data[k])) >= 2
          /\ RowsOf(game_data[k]) # {}

\* C3: a game whose joined team has no ranking on or before the game's day is
\* still returned, with the ranking fields missing, and the table returned has
\* one row per input game.
C3_MissingRankingKeepsRow ==
    rank_pc = "done" =>
        /\ Len(merged) = Len(game_data)
        /\ \A k \in 1..Len(game_data) :
              Qualifying(game_data[k]) = {} =>
                  \E i \in RowsOf(game_data[k]) : merged[i] = game_data[k] @@ NoRanking

\* --------------------------------------------- claims on the rolling stats
\* The (season, day, team) triples of the log the latest call read.
TeamDays ==
    {td \in Seasons \X LogDays \X Teams :
        \E i \in 1..Len(rolled_from) : PlaysOn(rolled_from[i], td[1], td[2], td[3])}

\* The team's own side of the box score of game g.
OwnScore(g, t) == IF g.WTeamID = t THEN g.WScore ELSE g.LScore

\* Game g is not later than (season s, day d).
UpTo(g, s, d) == g.Season < s \/ (g.Season = s /\ g.DayNum <= d)

\* The games team t played, won or lost, up to and including (s, d).
History(td) ==
    {i \in 1..Len(rolled_from) :
        /\ rolled_from[i].WTeamID = td[3] \/ rolled_from[i].LTeamID = td[3]
        /\ UpTo(rolled_from[i], td[1], td[2])}

\* The games of History(td) that belong to season td[1].
SeasonHistory(td) == {i \in History(td) : rolled_from[i].Season = td[1]}

\* The latest Window games of the set H of games of the log.
LatestOf(H) ==
    {i \in H :
        Cardinality({j \in H : UpTo(rolled_from[i], rolled_from[j].Season,
                                      rolled_from[j].DayNum)}) <= Window}

RECURSIVE SumOwn(_, _)
SumOwn(I, t) ==
    IF I = {} THEN 0
    ELSE LET i == CHOOSE j \in I : TRUE
         IN  OwnScore(rolled_from[i], t) + SumOwn(I \ {i}, t)

\* The rolled values a table holds for a team-day.
RolledAt(table, td) ==
    {table[i].RollScore : i \in {j \in 1..Len(table) :
        table[j].Season = td[1] /\ table[j].DayNum = td[2] /\ table[j].TeamID = td[3]}}

\* The fraction v = <<numerator, denominator>> is the mean of the team's own
\* statistic over the games W.
IsMeanOver(v, W, t) == v[2] > 0 /\ v[1] * Cardinality(W) = v[2] * SumOwn(W, t)

\* C4: at a team's k-th game in chronological order, counting every game it
\* played, the rolled value is the mean of its own statistic over its games
\* 1..k when k <= Window and over its games k-Window+1..k when k > Window; every
\* team-day has a rolled value.
C4_RollingWindow ==
    \A td \in TeamDays :
        /\ Cardinality(RolledAt(rolling_stats, td)) = 1
        /\ \A v \in RolledAt(rolling_stats, td) :
              /\ IsMeanOver(v, LatestOf(History(td)), td[3])
              /\ Cardinality(LatestOf(History(td))) =
                    (IF Cardinality(History(td)) <= Window
                     THEN Cardinality(History(td)) ELSE Window)

\* C4 witness: a team has played more games than the window holds, so that its
\* first game has left the window, and that changes the mean.
C4_Witness ==
    \E td \in TeamDays :
        /\ Cardinality(History(td)) > Window
        /\ \A v \in RolledAt(rolling_stats, td) : ~ IsMeanOver(v, History(td), td[3])
        /\ RolledAt(rolling_stats, td) # {}

\* C5: the rolled values of a team at (season s, day d) are computed from its
\* games of season s up to day d only; no game of another season enters the
\* window.
C5_SeasonIsolation ==
    \A td \in TeamDays :
        \A v \in RolledAt(rolling_stats, td) :
            IsMeanOver(v, LatestOf(SeasonHistory(td)), td[3])

\* The games the log has gained since the latest call.
AddedSince == {games_df[i] : i \in 1..Len(games_df)} \ {rolled_from[i] : i \in 1..Len(rolled_from)}

\* C6: a call on the log with later games added returns, for every team-day
\* that all added games are later than, the rolled values of the call before.
C6_LaterGamesIgnored ==
    [][\A td \in TeamDays :
          (\A g \in AddedSince : ~ UpTo(g, td[1], td[2])) =>
              RolledAt(rolling_stats', td) = RolledAt(rolling_stats, td)]_vars

\* C6 witness: a call has returned rolled values, and the log has since gained
\* a game of the same team that is later than one of the team-days rolled.
C6_Witness ==
    /\ rolling_stats # <<>>
    /\ \E td \in TeamDays : \E g \in AddedSince :
          /\ ~ UpTo(g, td[1], td[2])
          /\ g.WTeamID = td[3] \/ g.LTeamID = td[3]
          /\ RolledAt(rolling_stats, td) # {}

\* ------------------------------------------------ claims on the symmetrizer
\* The team-specific fields: the columns that come in a W and an L version.
TeamFields == {"TeamID", "Score"}

\* The input row an output row comes from (index labels start at 0).
InputOf(o) == X[o.index + 1].cols

\* The A_ and B_ columns of output row o hold the winner's and the loser's
\* values of its input row, A_ being the winner.
HoldsWinnerAsA(o) ==
    \A f \in TeamFields :
        /\ o.cols[<<"A", "_" \o f>>] = InputOf(o)[<<"W", f>>]
        /\ o.cols[<<"B", "_" \o f>>] = InputOf(o)[<<"L", f>>]

\* The same, A_ being the loser.
HoldsLoserAsA(o) ==
    \A f \in TeamFields :
        /\ o.cols[<<"A", "_" \o f>>] = InputOf(o)[<<"L", f>>]
        /\ o.cols[<<"B", "_" \o f>>] = InputOf(o)[<<"W", f>>]

\* C7: transform returns exactly one row for each input game, and in every
\* returned row and for every team-specific field the two values in the A_ and
\* B_ columns are the two values of the input row's winner and loser columns.
C7_OneRowPerGame ==
    \A k \in 1..Len(runs) :
        LET out == runs[k].out
        IN  /\ Len(out) = Len(X)
            /\ \A n \in 1..Len(X) :
                  Cardinality({i \in 1..Len(out) : out[i].index = n - 1}) = 1
            /\ \A i \in 1..Len(out) :
                  /\ DOMAIN out[i].cols =
                        {Season_, TeamA_wins_} \cup
                        {<<p, "_" \o f>> : p \in {"A", "B"}, f \in TeamFields}
                  /\ out[i].cols[Season_] = InputOf(out[i])[Season_]
                  /\ \A f \in TeamFields :
                        LET a == out[i].cols[<<"A", "_" \o f>>]
                            b == out[i].cols[<<"B", "_" \o f>>]
                            w == InputOf(out[i])[<<"W", f>>]
                            l == InputOf(out[i])[<<"L", f>>]
                        IN  (a = w /\ b = l) \/ (a = l /\ b = w)

\* C7 witness: a transform returned a table with a swapped and an unswapped
\* row.
C7_Witness ==
    \E k \in 1..Len(runs) : \E i, j \in 1..Len(runs[k].out) :
        /\ runs[k].out[i].cols[TeamA_wins_]
        /\ ~ runs[k].out[j].cols[TeamA_wins_]

\* C8: in every returned row TeamA_wins is true exactly when the A_ columns
\* hold the input row's winner values and the B_ columns its loser values, and
\* false exactly when they hold them the other way round.
C8_LabelMatchesSides ==
    \A k \in 1..Len(runs) : \A i \in 1..Len(runs[k].out) :
        LET o == runs[k].out[i]
        IN  /\ o.cols[TeamA_wins_] <=> HoldsWinnerAsA(o)
            /\ (~ o.cols[TeamA_wins_]) <=> HoldsLoserAsA(o)

\* C8 witness: a returned row has TeamA_wins false and the loser as team A.
C8_Witness ==
    \E k \in 1..Len(runs) : \E i \in 1..Len(runs[k].out) :
        /\ ~ runs[k].out[i].cols[TeamA_wins_]
        /\ HoldsLoserAsA(runs[k].out[i])
        /\ ~ HoldsWinnerAsA(runs[k].out[i])

\* C9: any two runs on the same input with the same seed configured return
\* identical tables, also when both are transform calls on the same object.
C9_SameSeedSameTable ==
    \A i, j \in 1..Len(runs) :
        (runs[i].random_state # None /\ runs[i].random_state = runs[j].random_state)
            => runs[i].out = runs[j].out

\* C19: the next transform uses the seed configured last, by the constructor
\* or by set_params after construction: the first transform calls of any two
\* objects whose random_state is the same seed at the call return the same
\* table (the same TeamA_wins sequence) for the same input.
C19_ConfiguredSeedHonored ==
    \A i, j \in 1..Len(runs) :
        (/\ runs[i].random_state # None
         /\ runs[i].random_state = runs[j].random_state
         /\ runs[i].drawn = 0 /\ runs[j].drawn = 0)
            => runs[i].out = runs[j].out

\* ------------------------------------------- claims on the bracket resolver
\* The games and the seed records handed to the latest transform call.
SlotGames == slot_X.CombinedDetailedResults
SlotSeeds == slot_X.NCAATourneySeeds

\* Team t has a seed record in season sn whose seed carries a play-in suffix.
HasPlayInSeed(sn, t) ==
    \E i \in 1..Len(SlotSeeds) :
        /\ SlotSeeds[i].Season = sn /\ SlotSeeds[i].TeamID = t
        /\ SlotSeeds[i].Seed[Len(SlotSeeds[i].Seed)] \in {"a", "b"}

HasSeed(sn, t) ==
    \E i \in 1..Len(SlotSeeds) : SlotSeeds[i].Season = sn /\ SlotSeeds[i].TeamID = t

\* A play-in game: a tournament game of two teams with play-in seeds.
IsPlayIn(g) ==
    /\ g.NCAA_Tournament
    /\ HasPlayInSeed(g.Season, g.WTeamID)
    /\ HasPlayInSeed(g.Season, g.LTeamID)

\* The table is one season's single-elimination tournament: all tournament
\* games are of one season and every team in them has a seed record.
OneSeededTournament ==
    \A i \in 1..Len(SlotGames) :
        SlotGames[i].NCAA_Tournament =>
            /\ HasSeed(SlotGames[i].Season, SlotGames[i].WTeamID)
            /\ HasSeed(SlotGames[i].Season, SlotGames[i].LTeamID)
            /\ \A j \in 1..Len(SlotGames) :
                  SlotGames[j].NCAA_Tournament => SlotGames[j].Season = SlotGames[i].Season

\* The tournament games that are not play-in games which team t has won up to
\* and including day d.
MainWins(t, d) ==
    {i \in 1..Len(SlotGames) :
        /\ SlotGames[i].NCAA_Tournament /\ ~ IsPlayIn(SlotGames[i])
        /\ SlotGames[i].WTeamID = t /\ SlotGames[i].DayNum <= d}

\* The rows returned for game g.
SlotRowsOf(g) ==
    {i \in 1..Len(slot_out) :
        /\ slot_out[i].Season = g.Season /\ slot_out[i].DayNum = g.DayNum
        /\ slot_out[i].WTeamID = g.WTeamID /\ slot_out[i].LTeamID = g.LTeamID}

C11_PlayInIffBothSuffixed ==
    slot_pc = "done" =>
        \A k \in 1..Len(SlotGames) :
            SlotGames[k].NCAA_Tournament =>
                /\ SlotRowsOf(SlotGames[k]) # {}
                /\ \A i \in SlotRowsOf(SlotGames[k]) :
                      /\ slot_out[i].Round = 0 <=> IsPlayIn(SlotGames[k])
                      /\ ~ IsPlayIn(SlotGames[k]) => slot_out[i].Round >= 1

\* The tournament games of season sn that are not play-in games which team t
\* has won up to and including day d.
SeasonMainWins(sn, t, d) ==
    {i \in 1..Len(SlotGames) :
        /\ SlotGames[i].NCAA_Tournament /\ ~ IsPlayIn(SlotGames[i])
        /\ SlotGames[i].Season = sn
        /\ SlotGames[i].WTeamID = t /\ SlotGames[i].DayNum <= d}

\* Every team of a tournament game has a seed record of the game's season.
AllSeeded ==
    \A i \in 1..Len(SlotGames) :
        SlotGames[i].NCAA_Tournament =>
            /\ HasSeed(SlotGames[i].Season, SlotGames[i].WTeamID)
            /\ HasSeed(SlotGames[i].Season, SlotGames[i].LTeamID)

\* C22: when the table holds tournament games of several seasons (all teams
\* seeded), the Round of a game that is not a play-in game is the number of
\* non-play-in tournament games its winner has won in the same season up to
\* and including that game: the first such win of each season is round 1.
C22_RoundPerSeason ==
    (slot_pc = "done" /\ AllSeeded) =>
        \A k \in 1..Len(SlotGames) :
            LET g == SlotGames[k]
            IN  (g.NCAA_Tournament /\ ~ IsPlayIn(g)) =>
                    \A i \in SlotRowsOf(g) :
                        slot_out[i].Round =
                            Cardinality(SeasonMainWins(g.Season, g.WTeamID, g.DayNum))

\* C23: a tournament game gets Round 0 only if both its teams have a seed
\* record of that season; a game of two teams without seed records gets a
\* Round >= 1.
C23_UnseededNotPlayIn ==
    slot_pc = "done" =>
        \A k \in 1..Len(SlotGames) :
            LET g == SlotGames[k]
            IN  g.NCAA_Tournament =>
                    \A i \in SlotRowsOf(g) :
                        /\ slot_out[i].Round = 0 =>
                              (HasSeed(g.Season, g.WTeamID) /\ HasSeed(g.Season, g.LTeamID))
                        /\ (~ HasSeed(g.Season, g.WTeamID) /\ ~ HasSeed(g.Season, g.LTeamID))
                              => slot_out[i].Round >= 1

\* C15: every game of the input is returned exactly once; a row with
\* NCAA_Tournament false has WSeed, LSeed, Round and Conference missing, and a
\* row with NCAA_Tournament true has a Round and a Conference.
C15_BracketOnlyOnTournament ==
    slot_pc = "done" =>
        /\ Len(slot_out) = Len(SlotGames)
        /\ \A k \in 1..Len(SlotGames) :
              /\ Cardinality(SlotRowsOf(SlotGames[k])) = 1
              /\ \A i \in SlotRowsOf(SlotGames[k]) :
                    /\ slot_out[i].NCAA_Tournament = SlotGames[k].NCAA_Tournament
                    /\ ~ slot_out[i].NCAA_Tournament =>
                          /\ slot_out[i].WSeed = NaNText /\ slot_out[i].LSeed = NaNText
                          /\ slot_out[i].Round = NaN /\ slot_out[i].Conference = NaNText
                    /\ slot_out[i].NCAA_Tournament =>
                          /\ slot_out[i].Round # NaN
                          /\ slot_out[i].Conference # NaNText

\* C15 witness: the table returned holds a regular-season row without bracket
\* fields and a tournament row with them.
C15_Witness ==
    /\ slot_pc = "done"
    /\ \E i, j \in 1..Len(slot_out) :
          /\ ~ slot_out[i].NCAA_Tournament /\ slot_out[i].Round = NaN
          /\ slot_out[j].NCAA_Tournament /\ slot_out[j].Round # NaN

\* C16: the rows of the table returned, regular-season and tournament rows
\* together, are in ascending DayNum order, whatever the row order of the input.
C16_ChronologicalOutput ==
    slot_pc = "done" =>
        \A i, j \in 1..Len(slot_out) :
            i < j => slot_out[i].DayNum <= slot_out[j].DayNum

\* ---------------------------------------------------- claims on the combiner
\* The two shapes: the keys of the two halves and of the combined table.
Shapes ==
    {[reg |-> "RegularSeasonDetailedResults", tou |-> "NCAATourneyDetailedResults",
      out |-> "CombinedDetailedResults"],
     [reg |-> "RegularSeasonCompactResults", tou |-> "NCAATourneyCompactResults",
      out |-> "CombinedCompactResults"]}

\* How many rows of table t equal x.
CountIn(t, x) == Cardinality({i \in 1..Len(t) : t[i] = x})

\* A step that is a call of combine_season_results.
CombineStep == comb_pc = "input" /\ comb_pc' = "done"

\* C12: for every shape whose regular-season and tournament tables are both in
\* the dict, the dict returned holds the combined table; it has as many rows as
\* the two tables together, and every row of the tournament table is in it with
\* NCAA_Tournament true, every row of the regular-season table with false.
C12_CombinedCountAndFlag ==
    [][CombineStep =>
        \A sh \in Shapes :
            (sh.reg \in DOMAIN data_files /\ sh.tou \in DOMAIN data_files) =>
                /\ sh.out \in DOMAIN comb_out'
                /\ Len(comb_out'[sh.out]) =
                      Len(data_files[sh.reg]) + Len(data_files[sh.tou])
                /\ \A row \in FileRows :
                      /\ CountIn(comb_out'[sh.out], [NCAA_Tournament |-> TRUE] @@ row)
                            = CountIn(data_files[sh.tou], row)
                      /\ CountIn(comb_out'[sh.out], [NCAA_Tournament |-> FALSE] @@ row)
                            = CountIn(data_files[sh.reg], row)]_vars

\* C12 witness: a call returned a combined table with a regular-season row and
\* a tournament row.
C12_Witness ==
    /\ comb_pc = "done"
    /\ \E sh \in Shapes :
          /\ sh.out \in DOMAIN comb_out
          /\ \E i, j \in 1..Len(comb_out[sh.out]) :
                /\ comb_out[sh.out][i].NCAA_Tournament
                /\ ~ comb_out[sh.out][j].NCAA_Tournament

\* C13: for every shape of which the regular-season or the tournament table is
\* not in the dict, the call returns, the dict returned has no combined table
\* of that shape, and the half that is present is still under its name, the
\* same table without a flag column; a shape with both halves is combined all
\* the same.
C13_MissingHalfSkipped ==
    [][CombineStep =>
        \A sh \in Shapes :
            /\ (sh.reg \notin DOMAIN data_files \/ sh.tou \notin DOMAIN data_files) =>
                  /\ sh.out \notin DOMAIN comb_out'
                  /\ \A k \in {sh.reg, sh.tou} \cap DOMAIN data_files :
                        /\ k \in DOMAIN comb_out'
                        /\ comb_out'[k] = data_files[k]
                        /\ frames'[k] = frames[k]
            /\ (sh.reg \in DOMAIN data_files /\ sh.tou \in DOMAIN data_files) =>
                  sh.out \in DOMAIN comb_out']_vars

\* C13 witness: a call returned a dict with the combined table of one shape and
\* the lone, non-empty half of the other shape.
C13_Witness ==
    /\ comb_pc = "done"
    /\ \E sh, other \in Shapes :
          /\ sh.out \notin DOMAIN comb_out
          /\ other.out \in DOMAIN comb_out
          /\ \E k \in {sh.reg, sh.tou} \cap DOMAIN comb_out : comb_out[k] # <<>>

\* C18: a call of combine_season_results leaves the dict passed in with the
\* same keys and every table passed in with the same columns and rows.
C18_InputsNotMutated ==
    [][CombineStep => (data_files' = data_files /\ frames' = frames)]_vars

\* ------------------------------------------------- claims on process_rankings
\* The selector names ranking systems: a system name, or a list of them.
NamesSystems(sel) ==
    \/ sel.kind = "str" /\ sel.names[1] # ""
    \/ sel.kind = "list" /\ sel.names # <<>>

\* No record of the table is of a system the selector names.
NoRecordMatches(df, sel) ==
    \A i \in 1..Len(df) : \A n \in 1..Len(sel.names) : df[i].SystemName # sel.names[n]

\* C14: whenever the selector names ranking systems, as a name or as a list of
\* names, and no ranking record matches, process_rankings raises an error
\* instead of returning an empty table.
C14_EmptyResultRaises ==
    (/\ proc_pc = "done"
     /\ NamesSystems(ranking_system)
     /\ NoRecordMatches(rankings_df, ranking_system))
        => (processed.raised # NoError /\ processed.table = <<>>)

\* ---------------------------------------------------- claims on the pipeline
\* The stage order of the control flow: Result Combiner, Temporal Ranking
\* Joiner, Rolling Stats Engine, Bracket Structure Resolver, Outcome
\* Symmetrizer.
ControlFlow ==
    <<"combine_season_results", "rankings", "rolling_stats", "tournament_slots",
      "randomize_teams">>

\* C17: the stages of a run are called in the order combiner, ranking joiner,
\* rolling stats, bracket resolver, symmetrizer: the bracket resolver after the
\* rolling stats and the symmetrizer last.
C17_StageOrder ==
    /\ Len(pipe_log) <= Len(ControlFlow)
    /\ \A i \in 1..Len(pipe_log) : pipe_log[i] = ControlFlow[i]

\* The raw directory holds the two detailed result files, the seeds, the
\* slots, and rankings with a record of the system selected.
ValidRawTables ==
    /\ PipelineFiles \subseteq DOMAIN pipe_files
    /\ pipe_params.ranking_system.kind = "str"
    /\ \E i \in 1..Len(pipe_files["MasseyOrdinals"]) :
          pipe_files["MasseyOrdinals"][i].SystemName = pipe_params.ranking_system.names[1]

\* C20: on valid raw tables no stage of a run raises, each stage being handed
\* the kind of value it reads.
C20_PipelineTotal ==
    (pipe_pc >= 1 /\ ValidRawTables) => pipe_err = NoError

\* ------------------------------------------- claims on the processed-data cache
\* The file name of the latest call's arguments.
RequestedFile ==
    name_processed_dataset(cache_request.men, cache_request.year,
                           cache_request.ranking_system, cache_request.n_games)

\* The raw directory of the latest call's gender holds every file a run reads,
\* with a ranking record of the one system the call selects.
ValidRawDir ==
    LET dir == raw_dir[IF cache_request.men THEN "M" ELSE "W"]
    IN  /\ PipelineFiles \subseteq DOMAIN dir
        /\ cache_request.ranking_system.kind = "str"
        /\ \E i \in 1..Len(dir["MasseyOrdinals"]) :
              /\ dir["MasseyOrdinals"][i].SystemName = cache_request.ranking_system.names[1]
              /\ dir["MasseyOrdinals"][i].Season = cache_request.year

\* C21: on valid raw data, a call returns the stored file without running the pipeline only when
\* it does not force and the file was saved for the same gender, year, ranking
\* system and window size; every other call runs the pipeline on the raw data,
\* saves its result under the name of the four arguments and returns it; what a
\* call returns was never computed for other arguments.
C21_CacheContract ==
    (cache_request # NoRequest /\ ValidRawDir) =>
        /\ cache_result.source = "file" =>
              /\ ~ cache_request.force_reprocess
              /\ cache_result.returned.saved_for = SavedFor(cache_request)
        /\ cache_request.force_reprocess => cache_result.source = "pipeline"
        /\ cache_result.source = "pipeline" =>
              /\ cache_result.raised = NoError
              /\ RequestedFile \in DOMAIN cache_store
              /\ cache_store[RequestedFile] = cache_result.returned
              /\ cache_result.returned.saved_for = SavedFor(cache_request)

====
